---- MODULE Spec2Model ----
(***************************************************************************)
(* Model of the in-memory OAuth token cache (token_manager.py) and of the  *)
(* Bedrock contract extractor's reply handling (bedrock_extractor.py).     *)
(*                                                                         *)
(* Time is counted in seconds, as timedelta(seconds=...) does.  An         *)
(* optional Python value is a set: None is {} and a present value x is     *)
(* {x}.  Every datetime.now() of a handler is a separate read of a clock   *)
(* that does not run backwards.                                            *)
(***************************************************************************)
EXTENDS Integers, Sequences, FiniteSets, TLC

VARIABLES
    now,            \* the wall clock, datetime.now()
    settings,       \* config.settings, fixed for the life of the process
    token_data,     \* TokenManager._token_data
    lastOp,         \* the operation that ran last
    epoch,          \* flips at every operation (not when only time passes)
    ret,            \* what the last operation returned
    raised,         \* whether the last operation raised to its caller
    requests,       \* token-exchange POSTs issued by the last operation
    resp,           \* the authorization server's answer in the last operation
    prev_cleared,   \* the operation before the last one was clear_token
    valid,          \* the result of the last _is_token_valid() on its own
    ext_pc,         \* "call" before extract_contract_info runs, "done" after
    outcome,        \* what bedrock_client.invoke_model does in that call
    response_text,  \* the model's raw reply, a string of Alphabet symbols
    json_str,       \* the text handed to json.loads, None when none was
    result,         \* what extract_contract_info returned, None before
    ext_raised,     \* whether extract_contract_info raised to its caller
    pdf_pc,         \* "call" before extract_text_from_pdf runs, "done" after
    pdf_opens,      \* whether PdfReader can open the bytes and list the pages
    pages,          \* what page.extract_text() does on each page, in order
    pdf_text,       \* what extract_text_from_pdf returned, None for None
    pl_pc,          \* where main() of get_closed_opportunities.py stands
    userpass,       \* username, password and security token are all set
    sf,             \* the connection: "none", "token" or "userpass"
    fallbacks,      \* username/password connection attempts made
    auth_rejected,  \* the steps whose call with the manager's token was
                    \* rejected for authorization
    crm,            \* what the opportunity query gave, None before it
    opportunities,  \* what get_closed_opportunities returned
    downloads,      \* calls of download_pdf_content
    extractions,    \* calls of extract_contract_info
    report,         \* the messages printed
    dl_cause,       \* why the last download ended as it did
    dl_ret          \* what download_pdf_content returned

tm_vars == <<now, settings, token_data, lastOp, epoch, ret, raised, requests,
             resp, prev_cleared, valid>>

ext_vars == <<ext_pc, outcome, response_text, json_str, result, ext_raised>>

pdf_vars == <<pdf_pc, pdf_opens, pages, pdf_text>>

pl_vars == <<pl_pc, userpass, sf, fallbacks, auth_rejected, crm, opportunities,
             downloads, extractions, report, dl_cause, dl_ret>>

vars == <<tm_vars, ext_vars, pdf_vars, pl_vars>>

-----------------------------------------------------------------------------
(* Optional values *)

None == {}
Some(x) == {x}
Val(o) == CHOOSE x \in o : TRUE

-----------------------------------------------------------------------------
(* Bounds *)

MaxTime == 180
MaxValidNow == 7600
MaxReplyLen == 5
MaxPages == 3
MaxOpps == 2

TickSteps == {60}
ClockSteps == {0, 60}
ExpiresInValues == {300, 3600}
ServerTokens == {"S"}
ManualTokens == {"M"}
TtlValues == {360, 7200}
IssuedSamples == {0, 200}
ExpirySamples == {300, 400, 7000, 7600}

-----------------------------------------------------------------------------
(* The parts of the state an operation of another component leaves alone *)

ExtIdle ==
    /\ ext_pc = "idle"
    /\ outcome = "text"
    /\ response_text = <<>>
    /\ json_str = None
    /\ result = None
    /\ ext_raised = FALSE

PdfIdle ==
    /\ pdf_pc = "idle"
    /\ pdf_opens = TRUE
    /\ pages = <<>>
    /\ pdf_text = None

PlIdle ==
    /\ pl_pc = "idle"
    /\ userpass = FALSE
    /\ sf = "none"
    /\ fallbacks = 0
    /\ auth_rejected = {}
    /\ crm = None
    /\ opportunities = None
    /\ downloads = 0
    /\ extractions = 0
    /\ report = {}
    /\ dl_cause = "none"
    /\ dl_ret = "none"

-----------------------------------------------------------------------------
(* token_manager.py *)

TWO_HOURS == 7200
buffer_time == 300

EmptyTokenData ==
    [access_token |-> None, instance_url |-> None, token_type |-> "Bearer",
     issued_at |-> None, expires_at |-> None]

Settings ==
    [salesforce_consumer_key : {None, Some("key")},
     salesforce_consumer_secret : {None, Some("secret")},
     salesforce_instance_url : {None, Some("cfg")}]

NoResponse == [kind |-> "none"]

\* What requests.post(token_url, data=payload) can produce.  An "ok" answer
\* is HTTP 200 with a JSON object whose keys are each present or omitted;
\* expires_in_numeric is FALSE when the expires_in it carries is not a number.
FailedResponses ==
    {[kind |-> k] : k \in {"network_error", "non_200", "invalid_body"}}

OkResponses ==
    [kind : {"ok"},
     access_token : {None} \cup {Some(t) : t \in ServerTokens},
     instance_url : {None, Some("srv")},
     token_type : {Some("Bearer")},
     expires_in : {None} \cup {Some(n) : n \in ExpiresInValues},
     expires_in_numeric : {TRUE}]
    \cup
    [kind : {"ok"},
     access_token : {Some(t) : t \in ServerTokens},
     instance_url : {Some("srv")},
     token_type : {None},
     expires_in : {Some(n) : n \in ExpiresInValues},
     expires_in_numeric : {FALSE}]

Responses == FailedResponses \cup OkResponses

_is_token_valid_AtBuffer(td, t) ==
    IF td.expires_at = None
    THEN IF td.issued_at # None
         THEN t < Val(td.issued_at) + TWO_HOURS
         ELSE TRUE
    ELSE t <= Val(td.expires_at) - buffer_time

\* _is_token_valid, with t the value datetime.now() returns
_is_token_valid(td, t) ==
    IF td.expires_at = None
    THEN IF td.issued_at # None
         THEN t < Val(td.issued_at) + TWO_HOURS
         ELSE TRUE
    ELSE t < Val(td.expires_at) - buffer_time

FetchFailure_Swallowed(td) == [store |-> td, raised |-> FALSE]

\* the fetch when requests.post raises, the status is not 200 or the body is
\* not a JSON object: nothing is stored, the exception is logged and re-raised
FetchFailure(td) == [store |-> td, raised |-> TRUE]

StoreTokenInfo_KeepsUrl(td, r, t1) ==
    [access_token |-> r.access_token,
     instance_url |-> IF r.instance_url # None THEN r.instance_url
                      ELSE td.instance_url,
     token_type |-> IF r.token_type = None THEN "Bearer" ELSE Val(r.token_type),
     issued_at |-> Some(t1),
     expires_at |-> td.expires_at]

\* "Store token in memory": the four assignments that precede the expiry
StoreTokenInfo(td, r, t1) ==
    [access_token |-> r.access_token,
     instance_url |-> r.instance_url,
     token_type |-> IF r.token_type = None THEN "Bearer" ELSE Val(r.token_type),
     issued_at |-> Some(t1),
     expires_at |-> td.expires_at]

\* _fetch_token_client_credentials: r is the server's answer, t1 and t2 the
\* clock at the two datetime.now() calls of the HTTP 200 branch.
_fetch_token_client_credentials(td, r, t1, t2) ==
    IF r.kind # "ok"
    THEN FetchFailure(td)
    ELSE LET stored == StoreTokenInfo(td, r, t1)
         IN  IF r.expires_in # None
             THEN IF r.expires_in_numeric
                  THEN [store |-> [stored EXCEPT !.expires_at =
                                       Some(t2 + Val(r.expires_in))],
                        raised |-> FALSE]
                  ELSE [store |-> stored, raised |-> TRUE]
             ELSE [store |-> [stored EXCEPT !.expires_at = Some(t2 + TWO_HOURS)],
                   raised |-> FALSE]

\* get_instance_url
get_instance_url(td, s) ==
    IF td.instance_url # None THEN td.instance_url
    ELSE s.salesforce_instance_url

CredentialsConfigured_KeyOnly(s) == s.salesforce_consumer_key # None

\* the credentials test of get_access_token
CredentialsConfigured(s) ==
    s.salesforce_consumer_key # None /\ s.salesforce_consumer_secret # None

GetAccessTokenOutcome_Retries(td, s, r, t0, t1, t2) ==
    IF td.access_token # None /\ _is_token_valid(td, t0)
    THEN [store |-> td, ret |-> td.access_token, raised |-> FALSE,
          requests |-> 0, resp |-> NoResponse]
    ELSE IF CredentialsConfigured(s)
         THEN LET f == _fetch_token_client_credentials(td, r, t1, t2)
              IN  [store |-> f.store,
                   ret |-> IF ~f.raised THEN f.store.access_token ELSE None,
                   raised |-> FALSE,
                   requests |-> IF f.raised THEN 2 ELSE 1, resp |-> r]
         ELSE [store |-> td, ret |-> None, raised |-> FALSE,
               requests |-> 0, resp |-> NoResponse]

GetAccessTokenOutcome_ReturnsStale(td, s, r, t0, t1, t2) ==
    IF td.access_token # None
    THEN [store |-> td, ret |-> td.access_token, raised |-> FALSE,
          requests |-> 0, resp |-> NoResponse]
    ELSE IF CredentialsConfigured(s)
         THEN LET f == _fetch_token_client_credentials(td, r, t1, t2)
              IN  [store |-> f.store,
                   ret |-> IF ~f.raised THEN f.store.access_token ELSE None,
                   raised |-> FALSE, requests |-> 1, resp |-> r]
         ELSE [store |-> td, ret |-> None, raised |-> FALSE,
               requests |-> 0, resp |-> NoResponse]

\* The outcome of get_access_token: t0 is the clock at the validity check.
GetAccessTokenOutcome(td, s, r, t0, t1, t2) ==
    IF td.access_token # None /\ _is_token_valid(td, t0)
    THEN [store |-> td, ret |-> td.access_token, raised |-> FALSE,
          requests |-> 0, resp |-> NoResponse]
    ELSE IF CredentialsConfigured(s)
         THEN LET f == _fetch_token_client_credentials(td, r, t1, t2)
              IN  \* "except Exception" swallows whatever the fetch raises
                  [store |-> f.store,
                   ret |-> IF ~f.raised THEN f.store.access_token ELSE None,
                   raised |-> FALSE, requests |-> 1, resp |-> r]
         ELSE [store |-> td, ret |-> None, raised |-> FALSE,
               requests |-> 0, resp |-> NoResponse]

SetTokenData_NoIssuedAt(s, tok, url, ttl, t1, t2) ==
    [access_token |-> Some(tok),
     instance_url |-> IF url # None THEN url ELSE s.salesforce_instance_url,
     token_type |-> "Bearer",
     issued_at |-> None,
     expires_at |-> Some(t2 + ttl)]

\* set_token's stored record: t1 and t2 are its two clock reads
SetTokenData(s, tok, url, ttl, t1, t2) ==
    [access_token |-> Some(tok),
     instance_url |-> IF url # None THEN url ELSE s.salesforce_instance_url,
     token_type |-> "Bearer",
     issued_at |-> Some(t1),
     expires_at |-> Some(t2 + ttl)]

ClearedTokenData_KeepsToken ==
    [token_data EXCEPT !.issued_at = None, !.expires_at = None]

\* the record clear_token installs
ClearedTokenData ==
    [access_token |-> None, instance_url |-> None, token_type |-> "Bearer",
     issued_at |-> None, expires_at |-> None]

Init ==
    /\ now = 0
    /\ settings \in Settings
    /\ token_data = EmptyTokenData
    /\ lastOp = "init"
    /\ epoch = 0
    /\ ret = None
    /\ raised = FALSE
    /\ requests = 0
    /\ resp = NoResponse
    /\ prev_cleared = FALSE
    /\ valid = TRUE
    /\ ExtIdle
    /\ PdfIdle
    /\ PlIdle

Called(op) ==
    /\ lastOp' = op
    /\ epoch' = 1 - epoch
    /\ prev_cleared' = (lastOp = "clear_token")
    /\ UNCHANGED <<settings, valid, ext_vars, pdf_vars, pl_vars>>

get_access_token ==
    \E r \in Responses, d \in ClockSteps :
        LET o == GetAccessTokenOutcome(token_data, settings, r,
                                       now, now, now + d)
            spent == IF o.requests = 0 THEN 0 ELSE d
        IN  /\ now + spent <= MaxTime
            /\ token_data' = o.store
            /\ ret' = o.ret
            /\ raised' = o.raised
            /\ requests' = o.requests
            /\ resp' = o.resp
            /\ now' = now + spent
            /\ Called("get_access_token")

refresh ==
    \E r \in Responses, d \in ClockSteps :
        LET f == _fetch_token_client_credentials(token_data, r, now, now + d)
        IN  /\ now + d <= MaxTime
            /\ token_data' = f.store
            /\ ret' = None
            /\ raised' = f.raised
            /\ requests' = 1
            /\ resp' = r
            /\ now' = now + d
            /\ Called("refresh")

set_token ==
    \E tok \in ManualTokens, url \in {None, Some("man")}, ttl \in TtlValues,
       d \in ClockSteps :
        /\ now + d <= MaxTime
        /\ token_data' = SetTokenData(settings, tok, url, ttl, now, now + d)
        /\ ret' = None
        /\ raised' = FALSE
        /\ requests' = 0
        /\ resp' = NoResponse
        /\ now' = now + d
        /\ Called("set_token")

clear_token ==
    /\ token_data' = ClearedTokenData
    /\ ret' = None
    /\ raised' = FALSE
    /\ requests' = 0
    /\ resp' = NoResponse
    /\ UNCHANGED now
    /\ Called("clear_token")

Tick ==
    \E d \in TickSteps :
        /\ now + d <= MaxTime
        /\ now' = now + d
        /\ UNCHANGED <<settings, token_data, lastOp, epoch, ret, raised,
                       requests, resp, prev_cleared, valid, ext_vars,
                       pdf_vars, pl_vars>>

Next ==
    \/ get_access_token
    \/ refresh
    \/ set_token
    \/ clear_token
    \/ Tick

Spec == Init /\ [][Next]_vars

-----------------------------------------------------------------------------
(* _is_token_valid on its own, over stored timestamps and instants that    *)
(* need not come from a run of the token manager.                          *)

InitValid ==
    /\ now \in 0..MaxValidNow
    /\ settings = [salesforce_consumer_key |-> None,
                   salesforce_consumer_secret |-> None,
                   salesforce_instance_url |-> None]
    /\ \E i \in {None} \cup {Some(t) : t \in IssuedSamples},
          e \in {None} \cup {Some(t) : t \in ExpirySamples} :
           token_data = [EmptyTokenData EXCEPT !.access_token = Some("M"),
                                               !.issued_at = i,
                                               !.expires_at = e]
    /\ lastOp = "init"
    /\ epoch = 0
    /\ ret = None
    /\ raised = FALSE
    /\ requests = 0
    /\ resp = NoResponse
    /\ prev_cleared = FALSE
    /\ valid = TRUE
    /\ ExtIdle
    /\ PdfIdle
    /\ PlIdle

is_token_valid_call ==
    /\ lastOp = "init"
    /\ lastOp' = "_is_token_valid"
    /\ valid' = _is_token_valid(token_data, now)
    /\ UNCHANGED <<now, settings, token_data, epoch, ret, raised, requests,
                   resp, prev_cleared, ext_vars, pdf_vars, pl_vars>>

NextValid == is_token_valid_call

SpecValid == InitValid /\ [][NextValid]_vars

-----------------------------------------------------------------------------
(* bedrock_extractor.py *)

\* A reply is a string over these symbols: the two braces, the comma, "d"
\* for the member "effective_date": "2024-01-15", "t" for the member
\* "total_amount": 1500, "n" for the key "notes": whose value follows, and
\* "x" for any text that is not JSON.
Alphabet == {"{", "}", ",", "d", "t", "n", "x"}

Replies == UNION {[1..n -> Alphabet] : n \in 0..MaxReplyLen}

Outcomes == {"invoke_error", "body_not_json", "body_without_text", "text"}

Null == "null"

EmptyObject == [k \in {} |-> Null]

\* str.find: the 0-based index of the first c, -1 when there is none
find(text, c) ==
    IF \E i \in 1..Len(text) : text[i] = c
    THEN (CHOOSE i \in 1..Len(text) :
              text[i] = c /\ \A j \in 1..(i - 1) : text[j] # c) - 1
    ELSE -1

rfind_First(text, c) == find(text, c)

\* str.rfind: the 0-based index of the last c, -1 when there is none
rfind(text, c) ==
    IF \E i \in 1..Len(text) : text[i] = c
    THEN (CHOOSE i \in 1..Len(text) :
              text[i] = c /\ \A j \in (i + 1)..Len(text) : text[j] # c) - 1
    ELSE -1

\* the slice text[a:b] for 0 <= a < b <= len(text)
Slice(text, a, b) == SubSeq(text, a + 1, b)

ParseFail == [ok |-> FALSE, val |-> EmptyObject, next |-> 0]

RECURSIVE ParseObject(_, _), ParseMembers(_, _, _)

\* json's object decoder on the symbols from position i: "{" "}" or
\* "{" member ("," member)* "}"; a repeated key keeps its last value.
ParseObject(s, i) ==
    IF i > Len(s) \/ s[i] # "{" THEN ParseFail
    ELSE IF i + 1 <= Len(s) /\ s[i + 1] = "}"
         THEN [ok |-> TRUE, val |-> EmptyObject, next |-> i + 2]
         ELSE ParseMembers(s, i + 1, EmptyObject)

ParseMembers(s, i, acc) ==
    IF i > Len(s) THEN ParseFail
    ELSE LET m == IF s[i] = "d"
                  THEN [ok |-> TRUE, val |-> "effective_date" :> "2024-01-15",
                        next |-> i + 1]
                  ELSE IF s[i] = "t"
                  THEN [ok |-> TRUE, val |-> "total_amount" :> "1500",
                        next |-> i + 1]
                  ELSE IF s[i] = "n"
                  THEN LET o == ParseObject(s, i + 1)
                       IN  IF o.ok
                           THEN [ok |-> TRUE, val |-> "notes" :> o.val,
                                 next |-> o.next]
                           ELSE ParseFail
                  ELSE ParseFail
         IN  IF ~m.ok THEN ParseFail
             ELSE LET acc2 == m.val @@ acc
                      j == m.next
                  IN  IF j > Len(s) THEN ParseFail
                      ELSE IF s[j] = "}"
                           THEN [ok |-> TRUE, val |-> acc2, next |-> j + 1]
                           ELSE IF s[j] = ","
                                THEN ParseMembers(s, j + 1, acc2)
                                ELSE ParseFail

\* json.loads: ok is FALSE where it raises JSONDecodeError, which includes
\* text left over after the object ("Extra data")
json_loads(s) ==
    LET o == ParseObject(s, 1)
    IN  IF o.ok /\ o.next = Len(s) + 1
        THEN [ok |-> TRUE, val |-> o.val]
        ELSE [ok |-> FALSE, val |-> EmptyObject]

BedrockApiError_Raises ==
    [result |-> None, json_str |-> None, raised |-> TRUE]

\* the outer "except Exception" handler
BedrockApiError ==
    [result |-> Some([effective_date |-> Null, total_amount |-> Null,
                      error |-> "Bedrock API error"]),
     json_str |-> None, raised |-> FALSE]

CouldNotParse_WithRaw ==
    [effective_date |-> Null, total_amount |-> Null,
     error |-> "Could not parse response", raw_response |-> response_text]

\* the branch taken when no JSON object is found in the reply
CouldNotParse ==
    [effective_date |-> Null, total_amount |-> Null,
     error |-> "Could not parse response"]

JsonParsingError_NoRaw(text) ==
    [effective_date |-> Null, total_amount |-> Null,
     error |-> "JSON parsing error"]

\* the "except json.JSONDecodeError" handler
JsonParsingError(text) ==
    [effective_date |-> Null, total_amount |-> Null,
     error |-> "JSON parsing error", raw_response |-> text]

\* the inner try block: locate the object in the reply and parse it
ParseResponseText(text) ==
    LET start_idx == find(text, "{")
        end_idx == rfind(text, "}") + 1
    IN  IF start_idx # -1 /\ end_idx > start_idx
        THEN LET js == Slice(text, start_idx, end_idx)
                 p == json_loads(js)
             IN  [result |-> Some(IF p.ok THEN p.val
                                  ELSE JsonParsingError(text)),
                  json_str |-> Some(js), raised |-> FALSE]
        ELSE [result |-> Some(CouldNotParse), json_str |-> None,
              raised |-> FALSE]

\* extract_contract_info: o is what the service call does.  invoke_model
\* raising, a body json.loads rejects and a body without the text key all
\* end in the outer handler.
ExtractContractInfo(o, text) ==
    IF o # "text" THEN BedrockApiError ELSE ParseResponseText(text)

InitExtract ==
    /\ now = 0
    /\ settings = [salesforce_consumer_key |-> None,
                   salesforce_consumer_secret |-> None,
                   salesforce_instance_url |-> None]
    /\ token_data = EmptyTokenData
    /\ lastOp = "init"
    /\ epoch = 0
    /\ ret = None
    /\ raised = FALSE
    /\ requests = 0
    /\ resp = NoResponse
    /\ prev_cleared = FALSE
    /\ valid = TRUE
    /\ ext_pc = "call"
    /\ outcome \in Outcomes
    /\ response_text \in (IF outcome = "text" THEN Replies ELSE {<<>>})
    /\ json_str = None
    /\ result = None
    /\ ext_raised = FALSE
    /\ PdfIdle
    /\ PlIdle

extract_contract_info ==
    /\ ext_pc = "call"
    /\ LET e == ExtractContractInfo(outcome, response_text)
       IN  /\ result' = e.result
           /\ json_str' = e.json_str
           /\ ext_raised' = e.raised
    /\ ext_pc' = "done"
    /\ UNCHANGED <<tm_vars, outcome, response_text, pdf_vars, pl_vars>>

NextExtract == extract_contract_info

SpecExtract == InitExtract /\ [][NextExtract]_vars

-----------------------------------------------------------------------------
(* get_closed_opportunities.py: extract_text_from_pdf *)

\* A text is a string of these pieces: a newline, the header "--- Page k ---",
\* the header "--- Page k (Error extracting text) ---", and what a page's
\* extract_text() gave: nothing, white space only, or words.
NL == [kind |-> "nl", page |-> 0]
Blank == [kind |-> "space", page |-> 0]
Words == [kind |-> "words", page |-> 0]
PageHeader(k) == [kind |-> "page", page |-> k]
PageErrorHeader(k) == [kind |-> "page_error", page |-> k]

PageOutcomes == {"raise", "empty", "blank", "words"}

PageSeqs == UNION {[1..n -> PageOutcomes] : n \in 0..MaxPages}

PageSegment_DropsFailed(k, p) ==
    IF p = "raise" THEN <<>>
    ELSE <<NL, PageHeader(k), NL>>
         \o (IF p = "words" THEN <<Words>>
             ELSE IF p = "blank" THEN <<Blank>> ELSE <<>>)

\* what one turn of the page loop appends to text
PageSegment(k, p) ==
    IF p = "raise" THEN <<NL, PageErrorHeader(k), NL>>
    ELSE <<NL, PageHeader(k), NL>>
         \o (IF p = "words" THEN <<Words>>
             ELSE IF p = "blank" THEN <<Blank>> ELSE <<>>)

IsSpace(t) == t.kind \in {"nl", "space"}

RECURSIVE lstrip(_), rstrip(_), PageLoop(_, _)

lstrip(s) ==
    IF s # <<>> /\ IsSpace(Head(s)) THEN lstrip(Tail(s)) ELSE s

rstrip(s) ==
    IF s # <<>> /\ IsSpace(s[Len(s)])
    THEN rstrip(SubSeq(s, 1, Len(s) - 1)) ELSE s

\* str.strip
strip(s) == rstrip(lstrip(s))

\* the for loop over enumerate(pdf_reader.pages), from page k on
PageLoop(pgs, k) ==
    IF k > Len(pgs) THEN <<>>
    ELSE PageSegment(k, pgs[k]) \o PageLoop(pgs, k + 1)

\* extract_text_from_pdf: None when the reader cannot open the document,
\* otherwise the stripped text
ExtractTextFromPdf(opens, pgs) ==
    IF ~opens THEN None ELSE Some(strip(PageLoop(pgs, 1)))

InitPdf ==
    /\ now = 0
    /\ settings = [salesforce_consumer_key |-> None,
                   salesforce_consumer_secret |-> None,
                   salesforce_instance_url |-> None]
    /\ token_data = EmptyTokenData
    /\ lastOp = "init"
    /\ epoch = 0
    /\ ret = None
    /\ raised = FALSE
    /\ requests = 0
    /\ resp = NoResponse
    /\ prev_cleared = FALSE
    /\ valid = TRUE
    /\ ExtIdle
    /\ pdf_pc = "call"
    /\ pdf_opens \in BOOLEAN
    /\ pages \in (IF pdf_opens THEN PageSeqs ELSE {<<>>})
    /\ pdf_text = None
    /\ PlIdle

extract_text_from_pdf ==
    /\ pdf_pc = "call"
    /\ pdf_text' = ExtractTextFromPdf(pdf_opens, pages)
    /\ pdf_pc' = "done"
    /\ UNCHANGED <<tm_vars, ext_vars, pdf_opens, pages, pl_vars>>

NextPdf == extract_text_from_pdf

SpecPdf == InitPdf /\ [][NextPdf]_vars

-----------------------------------------------------------------------------
(* get_closed_opportunities.py: main and the steps it drives *)

\* An opportunity record is told by its attachments: none, files none of
\* which is a PDF, one PDF, or several PDFs.
OppKinds == {"nofiles", "doc", "pdf", "pdfs"}

OppSeqs == UNION {[1..n -> OppKinds] : n \in 0..MaxOpps}

\* the limit main() passes to get_closed_opportunities
QueryLimit == 20

\* What sf.query does in get_closed_opportunities, and whether printing the
\* records found raises (a record without the fields the loop reads).
QueryOutcomes ==
    {[kind |-> "raise", records |-> <<>>, display_raises |-> FALSE]}
    \cup [kind : {"records"}, records : OppSeqs, display_raises : BOOLEAN]

HasFiles(kind) == kind # "nofiles"

Take(seq, n) == SubSeq(seq, 1, IF Len(seq) < n THEN Len(seq) ELSE n)

\* a Python value used as a condition: None and the empty list are false
Truthy(o) == o # None /\ Val(o) # <<>>

\* connect_to_salesforce: r is the authorization server's answer should the
\* token manager refresh, tok_conn and up_conn what the two Salesforce(...)
\* constructions do.
ConnectToSalesforce(td, s, up, r, tok_conn, up_conn) ==
    LET g == GetAccessTokenOutcome(td, s, r, now, now, now)
        url == get_instance_url(g.store, s)
        try_token == g.ret # None /\ url # None
        token_ok == try_token /\ tok_conn = "ok"
        try_up == ~token_ok /\ up
        up_ok == try_up /\ up_conn = "ok"
    IN  [store |-> IF try_token /\ ~token_ok THEN ClearedTokenData
                   ELSE g.store,
         sf |-> IF token_ok THEN "token"
                ELSE IF up_ok THEN "userpass" ELSE "none",
         rejected |-> try_token /\ ~token_ok,
         fallbacks |-> IF try_up THEN 1 ELSE 0,
         report |-> (IF try_token /\ ~token_ok
                     THEN {"token_connection_failed"} ELSE {})
                    \cup (IF try_up /\ ~up_ok
                          THEN {"userpass_connection_failed"} ELSE {})
                    \cup (IF ~token_ok /\ ~up_ok
                          THEN {"no_valid_credentials"} ELSE {})]

GetClosedOpportunities_Unfiltered(q) ==
    IF q.kind = "raise"
    THEN [ret |-> Some(<<>>), report |-> {"error_querying"}]
    ELSE LET opps == Take(q.records, QueryLimit)
         IN  IF opps = <<>>
             THEN [ret |-> None, report |-> {"no_opportunities_with_files"}]
             ELSE IF q.display_raises
                  THEN [ret |-> Some(<<>>), report |-> {"error_querying"}]
                  ELSE [ret |-> Some(opps), report |-> {"found"}]

\* get_closed_opportunities: the records with files, cut to the limit; None
\* with the "no ... with files found" message when there is none; [] with
\* the "Error querying" message when the query or the listing raises.
GetClosedOpportunities(q) ==
    IF q.kind = "raise"
    THEN [ret |-> Some(<<>>), report |-> {"error_querying"}]
    ELSE LET opps == Take(SelectSeq(q.records, HasFiles), QueryLimit)
         IN  IF opps = <<>>
             THEN [ret |-> None, report |-> {"no_opportunities_with_files"}]
             ELSE IF q.display_raises
                  THEN [ret |-> Some(<<>>), report |-> {"error_querying"}]
                  ELSE [ret |-> Some(opps), report |-> {"found"}]

\* select_opportunity_and_extract_pdf up to the download: sel is the number
\* typed (0 for anything that is not a number in range), pdf_sel_ok whether
\* the second number, asked when there are several PDFs, is one in range.
SelectPdf(opps, sel, pdf_sel_ok) ==
    IF sel = 0 THEN [go |-> FALSE, report |-> {"invalid_selection"}]
    ELSE IF opps[sel] = "nofiles"
         THEN [go |-> FALSE, report |-> {"no_files"}]
         ELSE IF opps[sel] = "doc"
              THEN [go |-> FALSE, report |-> {"no_pdf_files"}]
              ELSE IF opps[sel] = "pdfs" /\ ~pdf_sel_ok
                   THEN [go |-> FALSE, report |-> {"invalid_selection"}]
                   ELSE [go |-> TRUE, report |-> {}]

VersionQueryOutcomes == {"raise_unauthorized", "raise_other", "empty", "found"}

HttpOutcomes == {"ok", "unauthorized", "http_error", "network_error"}

\* download_pdf_content: qv is what the ContentVersion query does, r the
\* authorization server's answer should the token manager refresh, http what
\* requests.get and raise_for_status do.  cause is what happened; ret is what
\* the caller gets.
DownloadPdfContent(td, s, conn, qv, r, http) ==
    IF qv = "empty"
    THEN [store |-> td, cause |-> "no_version", ret |-> "None",
          rejected |-> FALSE, report |-> {"no_content_version"}]
    ELSE IF qv # "found"
    THEN [store |-> td,
          cause |-> IF qv = "raise_unauthorized" THEN "unauthorized"
                    ELSE "transfer_error",
          ret |-> "None",
          rejected |-> qv = "raise_unauthorized" /\ conn = "token",
          report |-> {"error_downloading"}]
    ELSE LET g == GetAccessTokenOutcome(td, s, r, now, now, now)
         IN  IF http = "ok"
             THEN [store |-> g.store, cause |-> "ok", ret |-> "content",
                   rejected |-> FALSE, report |-> {}]
             ELSE [store |-> g.store,
                   cause |-> IF http = "unauthorized" THEN "unauthorized"
                             ELSE "transfer_error",
                   ret |-> "None",
                   rejected |-> http = "unauthorized" /\ g.ret # None,
                   report |-> {"error_downloading"}]

PipelineDocs == {pgs \in PageSeqs : Len(pgs) <= 1}

PipelineReplies == {<<>>, <<"{", "d", "}">>, <<"{", "x", "}">>}

InitPipeline ==
    /\ now = 0
    /\ settings \in Settings
    /\ token_data = EmptyTokenData
    /\ lastOp = "init"
    /\ epoch = 0
    /\ ret = None
    /\ raised = FALSE
    /\ requests = 0
    /\ resp = NoResponse
    /\ prev_cleared = FALSE
    /\ valid = TRUE
    /\ ExtIdle
    /\ PdfIdle
    /\ pl_pc = "start"
    /\ userpass \in BOOLEAN
    /\ sf = "none"
    /\ fallbacks = 0
    /\ auth_rejected = {}
    /\ crm = None
    /\ opportunities = None
    /\ downloads = 0
    /\ extractions = 0
    /\ report = {}
    /\ dl_cause = "none"
    /\ dl_ret = "none"

tm_frame == <<now, settings, lastOp, epoch, ret, raised, requests, resp,
              prev_cleared, valid>>

connect_to_salesforce ==
    /\ pl_pc = "start"
    /\ \E r \in Responses, tok_conn \in {"ok", "rejected"},
          up_conn \in {"ok", "failed"} :
           LET c == ConnectToSalesforce(token_data, settings, userpass, r,
                                        tok_conn, up_conn)
           IN  /\ token_data' = c.store
               /\ sf' = c.sf
               /\ fallbacks' = fallbacks + c.fallbacks
               /\ auth_rejected' = IF c.rejected
                                   THEN auth_rejected \cup {"connect"}
                                   ELSE auth_rejected
               /\ report' = report \cup c.report
               \* main() leaves with sys.exit(1) when there is no connection
               /\ pl_pc' = IF c.sf # "none" THEN "connected" ELSE "exit"
    /\ UNCHANGED <<tm_frame, ext_vars, pdf_vars, userpass, crm, opportunities,
                   downloads, extractions, dl_cause, dl_ret>>

get_closed_opportunities ==
    /\ pl_pc = "connected"
    /\ \E q \in QueryOutcomes :
           LET g == GetClosedOpportunities(q)
           IN  /\ crm' = Some([failed |-> q.kind = "raise",
                               with_files |->
                                   Len(SelectSeq(q.records, HasFiles))])
               /\ opportunities' = g.ret
               /\ report' = report \cup g.report
               /\ pl_pc' = IF Truthy(g.ret) THEN "listed" ELSE "done"
    /\ UNCHANGED <<tm_vars, ext_vars, pdf_vars, userpass, sf, fallbacks,
                   auth_rejected, downloads, extractions, dl_cause, dl_ret>>

select_opportunity_and_extract_pdf ==
    /\ pl_pc = "listed"
    /\ \E sel \in 0..Len(Val(opportunities)), pdf_sel_ok \in BOOLEAN :
           LET c == SelectPdf(Val(opportunities), sel, pdf_sel_ok)
           IN  /\ report' = report \cup c.report
               /\ pl_pc' = IF c.go THEN "download" ELSE "done"
    /\ UNCHANGED <<tm_vars, ext_vars, pdf_vars, userpass, sf, fallbacks,
                   auth_rejected, crm, opportunities, downloads, extractions,
                   dl_cause, dl_ret>>

download_pdf_content ==
    /\ pl_pc = "download"
    /\ \E qv \in VersionQueryOutcomes, r \in Responses, http \in HttpOutcomes :
           LET c == DownloadPdfContent(token_data, settings, sf, qv, r, http)
           IN  /\ token_data' = c.store
               /\ dl_cause' = c.cause
               /\ dl_ret' = c.ret
               /\ auth_rejected' = IF c.rejected
                                   THEN auth_rejected \cup {"download"}
                                   ELSE auth_rejected
               /\ report' = report \cup c.report
                              \cup (IF c.ret = "None"
                                    THEN {"failed_to_download"} ELSE {})
               /\ pl_pc' = IF c.ret = "content" THEN "extract_text"
                           ELSE "done"
    /\ downloads' = downloads + 1
    /\ UNCHANGED <<tm_frame, ext_vars, pdf_vars, userpass, sf, fallbacks, crm,
                   opportunities, extractions>>

\* the extract_text_from_pdf call of select_opportunity_and_extract_pdf
extract_downloaded_text ==
    /\ pl_pc = "extract_text"
    /\ \E opens \in BOOLEAN, pgs \in PipelineDocs :
           LET t == ExtractTextFromPdf(opens, pgs)
           IN  /\ pdf_opens' = opens
               /\ pages' = pgs
               /\ pdf_text' = t
               /\ pdf_pc' = "done"
               /\ report' = IF Truthy(t) THEN report
                            ELSE report \cup {"failed_to_extract_text"}
               /\ pl_pc' = IF Truthy(t) THEN "ask" ELSE "done"
    /\ UNCHANGED <<tm_vars, ext_vars, userpass, sf, fallbacks, auth_rejected,
                   crm, opportunities, downloads, extractions, dl_cause,
                   dl_ret>>

\* the end of select_opportunity_and_extract_pdf: the user answers 'y' or
\* not, BedrockExtractor() is built or raises, extract_contract_info runs
analyze_with_bedrock ==
    /\ pl_pc = "ask"
    /\ \E yes \in BOOLEAN, built \in BOOLEAN, o \in Outcomes,
          reply \in PipelineReplies :
           IF yes /\ built
           THEN LET e == ExtractContractInfo(o, reply)
                IN  /\ outcome' = o
                    /\ response_text' = reply
                    /\ result' = e.result
                    /\ json_str' = e.json_str
                    /\ ext_raised' = e.raised
                    /\ ext_pc' = "done"
                    /\ extractions' = extractions + 1
                    /\ report' = report \cup {"contract_information"}
           ELSE /\ UNCHANGED <<ext_vars, extractions>>
                /\ report' = IF yes THEN report \cup {"error_using_bedrock"}
                             ELSE report
    /\ pl_pc' = "done"
    /\ UNCHANGED <<tm_vars, pdf_vars, userpass, sf, fallbacks, auth_rejected,
                   crm, opportunities, downloads, dl_cause, dl_ret>>

NextPipeline ==
    \/ connect_to_salesforce
    \/ get_closed_opportunities
    \/ select_opportunity_and_extract_pdf
    \/ download_pdf_content
    \/ extract_downloaded_text
    \/ analyze_with_bedrock

SpecPipeline == InitPipeline /\ [][NextPipeline]_vars

-----------------------------------------------------------------------------
(* Properties of the token manager *)

OpStep(op) == lastOp' = op /\ epoch' # epoch

\* the exchange of the last operation stored a token and returned normally
RefreshSucceeded(r) ==
    r.kind = "ok" /\ (r.expires_in = None \/ r.expires_in_numeric)

\* C1: get_access_token() returns the cached token when one is cached and
\* is_valid() holds; otherwise it attempts a refresh only if both the client
\* id and the client secret are configured, returns the new token when the
\* refresh succeeds and None when credentials are missing or the refresh
\* fails; it never raises to its caller.
C1_GetAccessTokenContract ==
    [][OpStep("get_access_token") =>
        /\ ~raised'
        /\ IF token_data.access_token # None /\ _is_token_valid(token_data, now)
           THEN ret' = token_data.access_token /\ requests' = 0
           ELSE IF /\ settings.salesforce_consumer_key # None
                   /\ settings.salesforce_consumer_secret # None
                THEN /\ requests' = 1
                     /\ RefreshSucceeded(resp') => ret' = resp'.access_token
                     /\ ~RefreshSucceeded(resp') => ret' = None
                ELSE requests' = 0 /\ ret' = None]_vars

C1_Witness ==
    /\ lastOp = "get_access_token"
    /\ requests = 1
    /\ resp.kind = "non_200"
    /\ ret = None
    /\ ~raised

\* C2: is_valid() follows the reference policy: with expires_at set it is
\* false from expires_at - 5 min on and true before (so true at expires_at -
\* 6 min); with only issued_at set it is true before issued_at + 2 h and
\* false after; with neither set it is true.
C2_IsValidPolicy ==
    lastOp = "_is_token_valid" =>
        LET i == token_data.issued_at
            e == token_data.expires_at
        IN  /\ (e # None /\ now >= Val(e) - 300) => ~valid
            /\ (e # None /\ now = Val(e) - 360) => valid
            /\ (e # None /\ now < Val(e) - 300) => valid
            /\ (e = None /\ i # None /\ now < Val(i) + 7200) => valid
            /\ (e = None /\ i # None /\ now > Val(i) + 7200) => ~valid
            /\ (e = None /\ i = None) => valid

C2_Witness ==
    /\ lastOp = "_is_token_valid"
    /\ token_data.expires_at # None
    /\ now = Val(token_data.expires_at) - 300
    /\ ~valid

\* C3: after a refresh that receives HTTP 200, expires_at is issued_at plus
\* exactly expires_in seconds when the server supplies expires_in, and
\* issued_at plus exactly 7200 seconds when it omits it, whatever the clock
\* does while the refresh runs.
C3_ExpiryExactlyIssuedPlusTtl ==
    (/\ lastOp \in {"refresh", "get_access_token"}
     /\ resp.kind = "ok"
     /\ resp.expires_in_numeric)
    => Val(token_data.expires_at) =
           Val(token_data.issued_at)
           + (IF resp.expires_in = None THEN 7200 ELSE Val(resp.expires_in))

\* C4 (as stated): after a refresh that receives HTTP 200 whose body omits
\* instance_url, the stored instance_url is what it was before the refresh.
C4_Original_KeepsPriorEndpoint ==
    [][(/\ OpStep("refresh")
        /\ resp'.kind = "ok"
        /\ resp'.instance_url = None)
       => token_data'.instance_url = token_data.instance_url]_vars

\* C4 (amended): after a refresh that receives HTTP 200 with a JSON object,
\* the stored instance_url is exactly what the server sent: absent when the
\* server omits it, whatever was stored before, and get_instance_url() then
\* answers with the configured salesforce_instance_url.
C4_EndpointFromServerOrConfig ==
    [][((OpStep("refresh") \/ OpStep("get_access_token")) /\ resp'.kind = "ok")
       => /\ token_data'.instance_url = resp'.instance_url
          /\ resp'.instance_url = None =>
                 get_instance_url(token_data', settings)
                     = settings.salesforce_instance_url]_vars

C4_Witness ==
    /\ lastOp = "refresh"
    /\ resp.kind = "ok"
    /\ resp.instance_url = None
    /\ token_data.instance_url = None
    /\ token_data.access_token # None
    /\ settings.salesforce_instance_url # None

\* C5: a refresh that gets a non-200 response or a network error leaves
\* every field of the store as it was, and the failure reaches the caller of
\* refresh as a raised error.
C5_FailedRefreshLeavesStore ==
    [][(/\ OpStep("refresh") \/ OpStep("get_access_token")
        /\ resp'.kind \in {"non_200", "network_error"})
       => /\ token_data' = token_data
          /\ lastOp' = "refresh" => raised']_vars

C5_Witness ==
    /\ lastOp = "refresh"
    /\ resp.kind = "network_error"
    /\ raised
    /\ token_data.access_token # None
    /\ token_data.expires_at # None

\* C6: in every reachable state, if access_token is present then issued_at
\* is present.
C6_TokenHasIssuedAt ==
    token_data.access_token # None => token_data.issued_at # None

C6_Witness ==
    /\ lastOp = "refresh"
    /\ raised
    /\ resp.kind = "ok"
    /\ token_data.access_token # None
    /\ token_data.issued_at # None
    /\ token_data.expires_at = None

\* C7: clear() leaves all four fields absent, and the next
\* get_access_token() does not answer from the cache: with client
\* credentials configured it issues a token exchange and returns None or the
\* token of that exchange; without them it returns None and does not raise.
C7_ClearForcesRefresh ==
    /\ [](lastOp = "clear_token" =>
            /\ token_data.access_token = None
            /\ token_data.instance_url = None
            /\ token_data.issued_at = None
            /\ token_data.expires_at = None)
    /\ [][(lastOp = "clear_token" /\ lastOp' = "get_access_token") =>
            /\ ~raised'
            /\ IF /\ settings.salesforce_consumer_key # None
                  /\ settings.salesforce_consumer_secret # None
               THEN /\ requests' = 1
                    /\ ret' # None => ret' = resp'.access_token
               ELSE requests' = 0 /\ ret' = None]_vars

C7_Witness ==
    /\ lastOp = "get_access_token"
    /\ prev_cleared
    /\ requests = 1
    /\ ret # None

\* C16: one get_access_token() call issues at most one token exchange; it
\* issues none and leaves every field of the store as it was when a cached
\* token is valid; a failed exchange is not repeated within the call.
C16_AtMostOneExchangePerCall ==
    [][OpStep("get_access_token") =>
        /\ requests' \in {0, 1}
        /\ (token_data.access_token # None /\ _is_token_valid(token_data, now))
           => (requests' = 0 /\ token_data' = token_data)
        /\ (resp'.kind \in {"network_error", "non_200", "invalid_body"})
           => (requests' = 1 /\ ret' = None /\ token_data' = token_data)]_vars

C16_Witness ==
    /\ lastOp = "get_access_token"
    /\ requests = 1
    /\ resp.kind = "network_error"
    /\ token_data.access_token # None

\* C17 (as stated): every token get_access_token() returns is valid under
\* is_valid() at the moment it is returned, for every expires_in the server
\* may send, values of 300 seconds or less included.
C17_Original_ReturnedTokenIsValid ==
    [][(OpStep("get_access_token") /\ ret' # None)
       => _is_token_valid(token_data', now')]_vars

\* C17 (amended): a token get_access_token() returns is either the cached
\* one, valid under is_valid() at the call, or the one a successful exchange
\* of this call just stored, which is returned without a validity check: it
\* is valid at the return exactly when the server omitted expires_in or sent
\* more than 300 seconds.
C17_ReturnedTokenCachedValidOrFresh ==
    [][(OpStep("get_access_token") /\ ret' # None) =>
        \/ /\ requests' = 0
           /\ ret' = token_data.access_token
           /\ token_data' = token_data
           /\ _is_token_valid(token_data, now)
        \/ /\ requests' = 1
           /\ RefreshSucceeded(resp')
           /\ ret' = resp'.access_token
           /\ _is_token_valid(token_data', now')
                  <=> (resp'.expires_in = None
                       \/ Val(resp'.expires_in) > 300)]_vars

C17_Witness ==
    /\ lastOp = "get_access_token"
    /\ requests = 1
    /\ ret # None
    /\ resp.kind = "ok"
    /\ resp.expires_in = Some(300)
    /\ ~_is_token_valid(token_data, now)

-----------------------------------------------------------------------------
(* Properties of the extractor *)

\* some "{" of the reply is followed later by a "}"
HasPair(text) ==
    \E i, j \in 1..Len(text) : i < j /\ text[i] = "{" /\ text[j] = "}"

\* the reply from its first "{" through its last "}", both included
FirstToLastBrace(text) ==
    LET opens == {i \in 1..Len(text) : text[i] = "{"}
        closes == {j \in 1..Len(text) : text[j] = "}"}
        first == CHOOSE i \in opens : \A k \in opens : i <= k
        last == CHOOSE j \in closes : \A k \in closes : k <= j
    IN  [k \in 1..(last - first + 1) |-> text[first + k - 1]]

\* the call did not produce the fields of a contract
ExtractionFailed ==
    \/ outcome # "text"
    \/ ~HasPair(response_text)
    \/ ~json_loads(FirstToLastBrace(response_text)).ok

\* C8: extract_contract_info never fails to its caller: for every outcome of
\* the model call it returns a result object, and every failure outcome
\* (service failure, malformed service body, reply without JSON, reply with
\* invalid JSON) is reported in that result's error field.
C8_ExtractNeverFails ==
    ext_pc = "done" =>
        /\ ~ext_raised
        /\ result # None
        /\ ExtractionFailed =>
               /\ "error" \in DOMAIN Val(result)
               /\ Val(result).error # Null

C8_Witness ==
    /\ ext_pc = "done"
    /\ outcome = "body_not_json"
    /\ result # None
    /\ "error" \in DOMAIN Val(result)

\* C9 (as stated): for a reply that opens a JSON object but is not valid
\* JSON, such as "{not valid json", the result has a non-null error and a
\* raw_response equal to the full reply.
C9_Original_RawResponseOnInvalidJson ==
    (/\ ext_pc = "done"
     /\ outcome = "text"
     /\ \E i \in 1..Len(response_text) : response_text[i] = "{"
     /\ ExtractionFailed)
    => /\ "error" \in DOMAIN Val(result)
       /\ Val(result).error # Null
       /\ "raw_response" \in DOMAIN Val(result)
       /\ Val(result).raw_response = response_text

\* C9 (amended): when a "{" of the reply is followed later by a "}" and the
\* text from the first "{" through the last "}" is not valid JSON, the result
\* has a non-null error and a raw_response equal to the full reply; when the
\* reply has a "{" and no "}" after it, as "{not valid json", the result is
\* the "Could not parse response" one and has no raw_response.
C9_RawResponseOnInvalidJson ==
    (ext_pc = "done" /\ outcome = "text") =>
        /\ (HasPair(response_text)
            /\ ~json_loads(FirstToLastBrace(response_text)).ok)
           => /\ "error" \in DOMAIN Val(result)
              /\ Val(result).error # Null
              /\ "raw_response" \in DOMAIN Val(result)
              /\ Val(result).raw_response = response_text
        /\ ((\E i \in 1..Len(response_text) : response_text[i] = "{")
            /\ ~HasPair(response_text))
           => /\ Val(result) = [effective_date |-> Null, total_amount |-> Null,
                                error |-> "Could not parse response"]
              /\ "raw_response" \notin DOMAIN Val(result)

C9_Witness ==
    /\ ext_pc = "done"
    /\ response_text = <<"{", "x", "}">>
    /\ result # None
    /\ "raw_response" \in DOMAIN Val(result)
    /\ Val(result).raw_response = <<"{", "x", "}">>

\* C10: for every reply in which a "{" is followed later by a "}", the text
\* parsed is exactly the reply from its first "{" through its last "}", and
\* when that text is valid JSON the result is the parsed object, with no
\* field added or removed.
C10_FirstToLastBracePassthrough ==
    (ext_pc = "done" /\ outcome = "text" /\ HasPair(response_text)) =>
        /\ json_str = Some(FirstToLastBrace(response_text))
        /\ json_loads(FirstToLastBrace(response_text)).ok
           => result = Some(json_loads(FirstToLastBrace(response_text)).val)

C10_Witness ==
    /\ ext_pc = "done"
    /\ response_text = <<"x", "{", "d", "}", "x">>
    /\ json_str = Some(<<"{", "d", "}">>)
    /\ result = Some([effective_date |-> "2024-01-15"])

\* C11: for every reply with no "{" followed later by a "}" (no brace at
\* all, only a closing brace, or every "}" before the first "{"), the result
\* is exactly {effective_date: null, total_amount: null, error: "Could not
\* parse response"}, with no raw_response field.
C11_NoPairCouldNotParse ==
    (ext_pc = "done" /\ outcome = "text" /\ ~HasPair(response_text)) =>
        /\ result = Some([effective_date |-> Null, total_amount |-> Null,
                          error |-> "Could not parse response"])
        /\ DOMAIN Val(result) = {"effective_date", "total_amount", "error"}
        /\ json_str = None

C11_Witness ==
    /\ ext_pc = "done"
    /\ outcome = "text"
    /\ response_text = <<"}", "x", "{">>
    /\ result = Some([effective_date |-> Null, total_amount |-> Null,
                      error |-> "Could not parse response"])

-----------------------------------------------------------------------------
(* Properties of the text extractor *)

IsHeader(t) == t.kind \in {"page", "page_error"}

IsWords(t) == t.kind = "words"

\* C13: for a PDF of N pages that opens, extract_text succeeds whatever pages
\* fail: its output has one "--- Page k" header for each k in 1..N, in
\* increasing order, the header of a failing page carries the error notice,
\* and the pages after a failing page are still processed (their words are
\* in the output); the call fails only when the document cannot be opened,
\* and a document of zero pages yields the empty string.
C13_PageFailuresNotFatal ==
    pdf_pc = "done" =>
        /\ ~pdf_opens <=> pdf_text = None
        /\ pdf_opens =>
             LET hs == SelectSeq(Val(pdf_text), IsHeader)
             IN  /\ Len(hs) = Len(pages)
                 /\ \A k \in 1..Len(pages) :
                        /\ hs[k].page = k
                        /\ hs[k].kind = "page_error" <=> pages[k] = "raise"
                 /\ Len(SelectSeq(Val(pdf_text), IsWords))
                        = Cardinality({k \in 1..Len(pages) : pages[k] = "words"})
                 /\ Len(pages) = 0 => Val(pdf_text) = <<>>

C13_Witness ==
    /\ pdf_pc = "done"
    /\ pages = <<"words", "raise", "words">>
    /\ pdf_text = Some(<<PageHeader(1), NL, Words, NL, PageErrorHeader(2), NL, NL,
                     PageHeader(3), NL, Words>>)

-----------------------------------------------------------------------------
(* Properties of the pipeline of get_closed_opportunities.py *)

\* C12: download_pdf_content reports its three failure causes to its caller
\* as distinguishable outcomes: NotFound when the document has no version,
\* Unauthorized when the token is rejected, TransferError for any other HTTP
\* or network failure.
C12_FailureCausesDistinguishable ==
    /\ dl_cause = "no_version" => dl_ret = "NotFound"
    /\ dl_cause = "unauthorized" => dl_ret = "Unauthorized"
    /\ dl_cause = "transfer_error" => dl_ret = "TransferError"

StoreCleared ==
    /\ token_data.access_token = None
    /\ token_data.instance_url = None
    /\ token_data.issued_at = None
    /\ token_data.expires_at = None

\* C14: every step in which a call made with the manager's token is rejected
\* for authorization, at the connection or at the document download, leaves
\* the token store cleared and at most one fallback attempt made.
C14_RejectionClearsStoreOneFallback ==
    [][auth_rejected' # auth_rejected => StoreCleared' /\ fallbacks' <= 1]_vars

Queried == crm # None

NothingFetched == downloads = 0 /\ extractions = 0

FetchOnlyAfterRecordWithFiles ==
    ~NothingFetched => Queried /\ Val(crm).with_files >= 1

\* C15 as stated: downloads and extractions happen only after the query gave
\* a record with files, and when it gave none or failed the run reports that
\* no opportunities with files were found and downloads and extracts nothing.
C15_Original_NoFilesOrFailureReported ==
    /\ FetchOnlyAfterRecordWithFiles
    /\ (Queried /\ (Val(crm).failed \/ Val(crm).with_files = 0))
           => "no_opportunities_with_files" \in report /\ NothingFetched

\* C15 amended: downloads and extractions happen only after the query gave a
\* record with files; when it gave none the run reports that no opportunities
\* with files were found; when the query failed the run reports a query
\* error and not that message; in both cases nothing is downloaded or
\* extracted.
C15_NoFilesReportedFailureReportedAsError ==
    /\ FetchOnlyAfterRecordWithFiles
    /\ (Queried /\ ~Val(crm).failed /\ Val(crm).with_files = 0)
           => "no_opportunities_with_files" \in report /\ NothingFetched
    /\ (Queried /\ Val(crm).failed)
           => /\ "error_querying" \in report
              /\ "no_opportunities_with_files" \notin report
              /\ NothingFetched

C15_Witness ==
    /\ pl_pc = "done"
    /\ Queried
    /\ ~Val(crm).failed
    /\ Val(crm).with_files = 0
    /\ opportunities = None
    /\ "no_opportunities_with_files" \in report
    /\ NothingFetched
====
